---- MODULE Spec2Model ----
(***************************************************************************)
(* tslint-etc: the two typed lint rules                                    *)
(*   source/rules/noUnusedDeclarationRule.ts   (declaration-usage tracker) *)
(*   source/rules/noUnsafeCallbackScopeRule.ts (capture safety classifier) *)
(* Each rule is a walker driven by one pre-order traversal of a file.  The *)
(* file is the input: it is produced node by node, every action being one  *)
(* visit hook of the walker applied to the next node of the traversal.     *)
(***************************************************************************)
EXTENDS Integers, Sequences, FiniteSets

\* ------------------------------------------------------------------ bounds
\* declarations a file may hold
MaxDecls == 2
\* distinct kinds of reference identifiers a file may hold
MaxRefs == 2
\* length of the text the capture classifier walks, in nodes
MaxPos == 3

VARIABLES
    identifiers,   \* Walker._identifiers: name token -> used flag
    failures,      \* RuleWalker failures: name token -> number of failures added
    status,        \* "walking", "done" (onSourceFileEnd ran) or "threw"
    visited,       \* declarations of the file visited so far -> their attributes
    pending,       \* name tokens of the declaration just visited, to be visited next
    refs,          \* reference identifiers visited so far
    merged         \* semantic model: the last two declarations share one symbol

uvars == <<identifiers, failures, status, visited, pending, refs, merged>>

\* the capture classifier (noUnsafeCallbackScopeRule.ts)
VARIABLES
    ruleArguments, \* the rule's configuration, as getOptions() returns it
    walker,        \* Walker.allowMethods / allowParameters / allowProperties
    callbackStack, \* ScopeWalker.callbackStack: the open callbacks, outermost first
    position,      \* text offset of the next node of the traversal
    chain,         \* the member-access chain whose nodes are being visited
    node,          \* the node visitNode is running on, NullNode between two visits
    failureNode,   \* visitNode's failureNode: offset of the node to flag, or None
    scopeFailures  \* offsets of the failures added so far, in order

cvars == <<ruleArguments, walker, callbackStack, position, chain, node,
           failureNode, scopeFailures>>

vars == <<uvars, cvars>>

\* ------------------------------------------------- the semantic model (input)
Decls == 1..MaxDecls

\* The symbol a declaration belongs to.  In a file with merged declarations
\* (class + interface, overloads, redeclared vars) the last two declarations
\* share one symbol; otherwise each declaration has a symbol of its own.
SymbolOf(d) == IF merged /\ d = MaxDecls THEN d - 1 ELSE d

\* symbol.getDeclarations(); a symbol without declarations (`undefined`,
\* `arguments`, `globalThis`: the symbol MaxDecls + 1), for which the compiler
\* returns undefined, is modelled as {}.
getDeclarations(s) == {d \in Decls : SymbolOf(d) = s}

\* typeChecker.getSymbolAtLocation gives a symbol, or undefined (0).
NoSymbol == 0
Symbols == 1..(MaxDecls + 1)

\* tokens: the name of a declaration, the source-side name of a renaming import
Name(d) == <<"name", d>>
PropertyName(d) == <<"propertyName", d>>

\* getIdentifier(declaration) = declaration["name"]
getIdentifier(d) == Name(d)

\* ------------------------------------------------------- Map operations
\* Map.set(key, value)
MapSet(m, k, v) == [x \in DOMAIN m \cup {k} |-> IF x = k THEN v ELSE m[x]]

EmptyMap == [x \in {} |-> FALSE]

\* _identifiers.set(name, false) for each name of a set
RegisterAll(m, ks) == [x \in DOMAIN m \cup ks |-> IF x \in ks THEN FALSE ELSE m[x]]

TrackedKinds == {"class", "enum", "function", "variable"}

Declare(d, kind, exported, named) ==
    [x \in DOMAIN visited \cup {d} |->
        IF x = d THEN [kind |-> kind, exported |-> exported, named |-> named]
        ELSE visited[x]]

Unvisited == Decls \ DOMAIN visited

\* --------------------------------------------------------------- actions
\* The traversal is pre-order: a declaration's hook runs before its children
\* are visited, and the first identifiers visited after it are the names it
\* declares (pending); every node is visited once.
UInit ==
    /\ identifiers = EmptyMap
    /\ failures = [x \in {} |-> 0]
    /\ status = "walking"
    /\ visited = [x \in {} |-> 0]
    /\ pending = {}
    /\ refs = {}
    /\ merged \in BOOLEAN

\* the classifier's pass does not involve the usage tracker
UIdle ==
    /\ identifiers = EmptyMap
    /\ failures = [x \in {} |-> 0]
    /\ status = "walking"
    /\ visited = [x \in {} |-> 0]
    /\ pending = {}
    /\ refs = {}
    /\ merged = FALSE

\* the registry after a class/enum declaration hook
RegisterUnlessExported(m, name, exported) ==
    IF ~exported THEN MapSet(m, name, FALSE) ELSE m

visitClassDeclaration ==
    /\ status = "walking"
    /\ pending = {}
    /\ \E d \in Unvisited, exported \in BOOLEAN :
        /\ identifiers' = RegisterUnlessExported(identifiers, Name(d), exported)
        /\ visited' = Declare(d, "class", exported, TRUE)
        /\ pending' = pending \cup {Name(d)}
    /\ UNCHANGED <<failures, status, refs, merged, cvars>>

\* the export modifier not looked at
BadEnumRegister(m, name, exported) == MapSet(m, name, FALSE)

\* the registry after visitEnumDeclaration's own code

EnumRegister(m, name, exported) == RegisterUnlessExported(m, name, exported)

visitEnumDeclaration ==
    /\ status = "walking"
    /\ pending = {}
    /\ \E d \in Unvisited, exported \in BOOLEAN :
        /\ identifiers' = EnumRegister(identifiers, Name(d), exported)
        /\ visited' = Declare(d, "enum", exported, TRUE)
        /\ pending' = pending \cup {Name(d)}
    /\ UNCHANGED <<failures, status, refs, merged, cvars>>

\* `name && !hasModifier(export)`: a function declaration may have no name
\* (`export default function () {}`)
visitFunctionDeclaration ==
    /\ status = "walking"
    /\ pending = {}
    /\ \E d \in Unvisited, exported \in BOOLEAN, named \in BOOLEAN :
        /\ named \/ exported
        /\ identifiers' = IF named /\ ~exported
                          THEN MapSet(identifiers, Name(d), FALSE)
                          ELSE identifiers
        /\ visited' = Declare(d, "function", exported, named)
        /\ pending' = IF named THEN pending \cup {Name(d)} ELSE pending
    /\ UNCHANGED <<failures, status, refs, merged, cvars>>

\* one statement declares one or more variables; the modifier is the statement's
visitVariableStatement ==
    /\ status = "walking"
    /\ pending = {}
    /\ \E ds \in SUBSET Unvisited, exported \in BOOLEAN :
        /\ ds # {}
        /\ identifiers' = IF ~exported
                          THEN RegisterAll(identifiers, {Name(d) : d \in ds})
                          ELSE identifiers
        /\ visited' = [x \in DOMAIN visited \cup ds |->
                          IF x \in ds
                          THEN [kind |-> "variable", exported |-> exported, named |-> TRUE]
                          ELSE visited[x]]
        /\ pending' = pending \cup {Name(d) : d \in ds}
    /\ UNCHANGED <<failures, status, refs, merged, cvars>>

\* the registry after the elements of a named-imports clause: for each element
\* set(propertyName, true) when present, then set(name, false)
ImportElements(m, ds, renamed) ==
    [x \in DOMAIN m \cup {Name(d) : d \in ds} \cup {PropertyName(d) : d \in renamed} |->
        IF x \in {Name(d) : d \in ds} THEN FALSE
        ELSE IF x \in {PropertyName(d) : d \in renamed} THEN TRUE
        ELSE m[x]]

visitNamedImports ==
    /\ status = "walking"
    /\ pending = {}
    /\ \E ds \in SUBSET Unvisited :
        /\ ds # {}
        /\ \E renamed \in SUBSET ds :
            /\ identifiers' = ImportElements(identifiers, ds, renamed)
            /\ visited' = [x \in DOMAIN visited \cup ds |->
                              IF x \in ds
                              THEN [kind |-> "importSpecifier", exported |-> FALSE, named |-> TRUE]
                              ELSE visited[x]]
            /\ pending' = pending \cup {Name(d) : d \in ds}
                                  \cup {PropertyName(d) : d \in renamed}
    /\ UNCHANGED <<failures, status, refs, merged, cvars>>

visitNamespaceImport ==
    /\ status = "walking"
    /\ pending = {}
    /\ \E d \in Unvisited :
        /\ identifiers' = MapSet(identifiers, Name(d), FALSE)
        /\ visited' = Declare(d, "namespaceImport", FALSE, TRUE)
        /\ pending' = pending \cup {Name(d)}
    /\ UNCHANGED <<failures, status, refs, merged, cvars>>

\* a declaration of a kind no hook is overridden for (interface, parameter,
\* type alias, ...): super.visitNode only descends to its name
visitOtherDeclaration ==
    /\ status = "walking"
    /\ pending = {}
    /\ \E d \in Unvisited :
        /\ visited' = Declare(d, "other", FALSE, TRUE)
        /\ pending' = pending \cup {Name(d)}
    /\ UNCHANGED <<identifiers, failures, status, refs, merged, cvars>>

\* the marking without its _identifiers.has(identifier) test
BadMarkUsed(m, ds) ==
    [x \in DOMAIN m \cup {getIdentifier(d) : d \in ds} |->
        IF x \in {getIdentifier(d) : d \in ds} THEN TRUE ELSE m[x]]

\* declarations.forEach(declaration => { if (_identifiers.has(identifier))
\*     _identifiers.set(identifier, true) })
MarkUsed(m, ds) ==
    [x \in DOMAIN m |-> IF x \in {getIdentifier(d) : d \in ds} THEN TRUE ELSE m[x]]

\* visitIdentifier on a node with the given answers of the semantic model.
\* Returns the outcome: the registry, and whether the hook threw.
\* symbol.getDeclarations() throws when symbol is undefined, and
\* declarations.forEach throws when the symbol has no declarations.
IdentifierOutcome(m, isDeclaration, isReassignmentTarget, symbol) ==
    IF isDeclaration \/ isReassignmentTarget
    THEN [map |-> m, threw |-> FALSE]
    ELSE IF symbol = NoSymbol \/ getDeclarations(symbol) = {}
    THEN [map |-> m, threw |-> TRUE]
    ELSE [map |-> MarkUsed(m, getDeclarations(symbol)), threw |-> FALSE]

\* the identifier visited is the name token of a declaration visited before
visitIdentifierName ==
    /\ status = "walking"
    /\ \E t \in pending :
        LET out == IdentifierOutcome(identifiers, t \in DOMAIN identifiers, FALSE,
                                     SymbolOf(t[2]))
        IN  /\ identifiers' = out.map
            /\ status' = IF out.threw THEN "threw" ELSE status
            /\ pending' = pending \ {t}
    /\ UNCHANGED <<failures, visited, refs, merged, cvars>>

\* the identifier visited is a reference
visitIdentifierReference ==
    /\ status = "walking"
    /\ pending = {}
    /\ \E symbol \in {NoSymbol} \cup Symbols, target \in BOOLEAN :
        LET out == IdentifierOutcome(identifiers, FALSE, target, symbol)
            r == [symbol |-> symbol, target |-> target]
        IN  /\ Cardinality(refs \cup {r}) <= MaxRefs
            /\ refs' = refs \cup {r}
            /\ identifiers' = out.map
            /\ status' = IF out.threw THEN "threw" ELSE status
    /\ UNCHANGED <<failures, visited, pending, merged, cvars>>

\* the failures after _identifiers.forEach(...) of onSourceFileEnd
ReportUnused(f, m) ==
    [x \in DOMAIN f \cup {k \in DOMAIN m : ~m[k]} |->
        (IF x \in DOMAIN f THEN f[x] ELSE 0) + (IF x \in DOMAIN m /\ ~m[x] THEN 1 ELSE 0)]

\* visitNode(sourceFile): after super.visitNode has visited every node
onSourceFileEnd ==
    /\ status = "walking"
    /\ pending = {}
    /\ failures' = ReportUnused(failures, identifiers)
    /\ status' = "done"
    /\ UNCHANGED <<identifiers, visited, pending, refs, merged, cvars>>

UNext ==
    \/ visitClassDeclaration
    \/ visitEnumDeclaration
    \/ visitFunctionDeclaration
    \/ visitVariableStatement
    \/ visitNamedImports
    \/ visitNamespaceImport
    \/ visitOtherDeclaration
    \/ visitIdentifierName
    \/ visitIdentifierReference
    \/ onSourceFileEnd

\* =================================================== the capture classifier
None == -1

\* ---- configuration
\* an option is a boolean or left unset
OptionValues == {"undefined", "true", "false"}
\* getOptions(): no options object, or one with the three optional fields
RuleArguments ==
    {<<>>} \cup
    {<<o>> : o \in [allowMethods : OptionValues,
                    allowParameters : OptionValues,
                    allowProperties : OptionValues]}

\* option !== undefined ? option : default
OptionOr(option, default) == IF option # "undefined" THEN option = "true" ELSE default

\* the fields of Walker after its constructor
WalkerFields(args) ==
    IF args # <<>>
    THEN [allowMethods |-> OptionOr(args[1].allowMethods, TRUE),
          allowParameters |-> OptionOr(args[1].allowParameters, TRUE),
          allowProperties |-> OptionOr(args[1].allowProperties, FALSE)]
    ELSE [allowMethods |-> TRUE, allowParameters |-> TRUE, allowProperties |-> FALSE]

\* ---- nodes (input)
\* where a node stands in its parent
Sites == {"QualifiedName.left", "QualifiedName.right",
          "BinaryExpression.instanceof.right", "BinaryExpression.assign.left",
          "CallExpression.expression", "CallExpression.argument",
          "TaggedTemplateExpression.tag",
          "NewExpression.expression", "NewExpression.argument",
          "TypeReference.typeName", "Other"}
ThisSites == {"BinaryExpression.assign.left", "CallExpression.argument",
              "NewExpression.argument", "Other"}
ChainSites == {"PropertyAccessExpression.expression", "PropertyAccessExpression.name"}

ParentKind(site) ==
    CASE site \in {"QualifiedName.left", "QualifiedName.right"} -> "QualifiedName"
      [] site \in {"BinaryExpression.instanceof.right",
                   "BinaryExpression.assign.left"} -> "BinaryExpression"
      [] site \in {"CallExpression.expression", "CallExpression.argument"} -> "CallExpression"
      [] site = "TaggedTemplateExpression.tag" -> "TaggedTemplateExpression"
      [] site \in {"NewExpression.expression", "NewExpression.argument"} -> "NewExpression"
      [] site = "TypeReference.typeName" -> "TypeReference"
      [] site \in ChainSites -> "PropertyAccessExpression"
      [] OTHER -> "Other"

\* declarations the semantic model resolves a node to
Flavors == {"Parameter", "ConstVariable", "LetVariable", "ImportSpecifier", "NamespaceImport"}
NoDeclaration == [found |-> FALSE, pos |-> 0, flavor |-> "none", readonly |-> FALSE]
Declarations ==
    {NoDeclaration} \cup
    {[found |-> TRUE, pos |-> p, flavor |-> f, readonly |-> FALSE] :
        p \in 0..MaxPos, f \in Flavors}
\* `this` resolves to the class it stands for
ThisDeclarations ==
    {NoDeclaration} \cup
    {[found |-> TRUE, pos |-> p, flavor |-> "ClassDeclaration", readonly |-> FALSE] :
        p \in 0..MaxPos}
\* the member a property name resolves to
MemberDeclarations ==
    {NoDeclaration} \cup
    {[found |-> TRUE, pos |-> 0, flavor |-> "Property", readonly |-> r] : r \in BOOLEAN}

\* knownGlobalRegExp
KnownGlobals == {"Array", "BigInt", "Date", "Intl", "JSON", "Math", "Number", "Object",
                 "Promise", "Proxy", "Reflect", "String", "Symbol", "console"}

\* the texts of the identifiers a chain starts with
Texts == {"Math", "console", "Foo", "foo"}

NullNode == [pos |-> None, kind |-> "none", site |-> "Other", text |-> "",
             declaration |-> NoDeclaration, parentParentIsPropertyAccess |-> FALSE,
             enumLiteral |-> FALSE, called |-> FALSE]

\* a bare identifier or `this` at offset p
BareNodes(p) ==
    {[NullNode EXCEPT !.pos = p, !.kind = "Identifier", !.site = s, !.declaration = d] :
        s \in Sites, d \in Declarations}
    \cup
    {[NullNode EXCEPT !.pos = p, !.kind = "ThisKeyword", !.site = s, !.text = "this",
                      !.declaration = d] :
        s \in ThisSites, d \in ThisDeclarations}

\* the identifier or `this` a member-access chain starts with; the ambient
\* globals are declared in the library files
RootNodes(p) ==
    {[NullNode EXCEPT !.pos = p, !.kind = "Identifier",
                      !.site = "PropertyAccessExpression.expression",
                      !.text = t, !.declaration = d] :
        t \in Texts \ KnownGlobals, d \in Declarations}
    \cup
    {[NullNode EXCEPT !.pos = p, !.kind = "Identifier",
                      !.site = "PropertyAccessExpression.expression",
                      !.text = t, !.declaration = d] :
        t \in Texts \cap KnownGlobals,
        d \in {NoDeclaration,
               [found |-> TRUE, pos |-> 0, flavor |-> "LetVariable", readonly |-> FALSE]}}
    \cup
    {[NullNode EXCEPT !.pos = p, !.kind = "ThisKeyword",
                      !.site = "PropertyAccessExpression.expression",
                      !.text = "this", !.declaration = d] :
        d \in ThisDeclarations}

\* a property name of a chain: an intermediate one (its parent's parent is a
\* property access too) or the last one
NameNodes(p) ==
    {[NullNode EXCEPT !.pos = p, !.kind = "Identifier",
                      !.site = "PropertyAccessExpression.name",
                      !.declaration = d, !.parentParentIsPropertyAccess = g,
                      !.enumLiteral = e, !.called = c] :
        d \in MemberDeclarations, g \in BOOLEAN, e \in BOOLEAN, c \in BOOLEAN}

NoChain == [open |-> FALSE, root |-> NullNode]

\* ---- helpers
isThis(n) == n.kind = "ThisKeyword"
isIdentifier(n) == n.kind = "Identifier"

findDeclaration(n) == n.declaration

isInstanceofCtor(n) == n.site = "BinaryExpression.instanceof.right"

isWithinCallExpressionExpression(n) == n.called

isWithinParameterDeclaration(declaration) == declaration.flavor = "Parameter"

isConstDeclaration(declaration) == declaration.flavor = "ConstVariable"

\* /^[A-Z]/.test(rootText), on the texts of the model
StartsUpperCase(text) == text \in {"Math", "Foo"}

\* getPropertyAccessExpressionRoot: the expression the chain starts with, when
\* it is `this` or an identifier
getPropertyAccessExpressionRoot(c) ==
    IF isThis(c.root) \/ isIdentifier(c.root) THEN c.root ELSE NullNode

isWithinClosure(declaration, callback) ==
    declaration.pos >= callback.pos /\ declaration.pos < callback.end

\* the test of the parent's parent left out
BadIsPropertyAccessExpressionLeaf(n) ==
    /\ ParentKind(n.site) = "PropertyAccessExpression"
    /\ n.site = "PropertyAccessExpression.name"

isPropertyAccessExpressionLeaf(n) ==
    /\ ParentKind(n.site) = "PropertyAccessExpression"
    /\ n.site = "PropertyAccessExpression.name"
    /\ ~n.parentParentIsPropertyAccess

\* ---- Walker.isUnsafeRoot: the offset of the node to flag, or None
isUnsafeRoot(n, callback, w) ==
    IF ParentKind(n.site) = "QualifiedName" THEN None
    ELSE IF isInstanceofCtor(n) THEN None
    ELSE IF ~findDeclaration(n).found THEN None
    ELSE IF isWithinClosure(findDeclaration(n), callback) THEN None
    ELSE IF w.allowParameters /\ isWithinParameterDeclaration(findDeclaration(n)) THEN None
    ELSE IF n.site = "CallExpression.expression" THEN None
    ELSE IF n.site = "TaggedTemplateExpression.tag" THEN None
    ELSE IF ParentKind(n.site) = "NewExpression" THEN None
    ELSE IF ParentKind(n.site) = "TypeReference" THEN None
    ELSE IF isConstDeclaration(findDeclaration(n)) THEN None
    ELSE IF findDeclaration(n).flavor = "ImportSpecifier" THEN None
    ELSE IF findDeclaration(n).flavor = "NamespaceImport" THEN None
    ELSE n.pos

\* the two options taken for one another
BadGate(called, root, w) ==
    IF called
    THEN (IF w.allowProperties THEN None ELSE root.pos)
    ELSE (IF w.allowMethods THEN None ELSE root.pos)

\* `called ? (allowMethods ? undefined : root) : (allowProperties ? undefined : root)`
Gate(called, root, w) ==
    IF called
    THEN (IF w.allowMethods THEN None ELSE root.pos)
    ELSE (IF w.allowProperties THEN None ELSE root.pos)

\* the innermost callback instead of the outermost
BadRootCallback(stack) == stack[Len(stack)]

\* the callback the declaration's position is compared with: callbackStack[0]

rootCallback(stack) == stack[1]

\* the first two chain rules skipped
BadIsUnsafe(n, stack, c, w) ==
    IF ParentKind(n.site) = "PropertyAccessExpression"
    THEN IF ~isPropertyAccessExpressionLeaf(n) THEN None
         ELSE IF ~findDeclaration(n).found THEN None
         ELSE LET called == isWithinCallExpressionExpression(n)
                  root == getPropertyAccessExpressionRoot(c)
              IN  IF root = NullNode THEN None
                  ELSE IF isThis(root) THEN Gate(called, root, w)
                  ELSE IF root.text \in KnownGlobals THEN None
                  ELSE IF StartsUpperCase(root.text) THEN Gate(called, root, w)
                  ELSE isUnsafeRoot(root, rootCallback(stack), w)
    ELSE isUnsafeRoot(n, rootCallback(stack), w)

\* ---- Walker.isUnsafe: the offset of the node to flag, or None
isUnsafe(n, stack, c, w) ==
    IF ParentKind(n.site) = "PropertyAccessExpression"
    THEN IF ~isPropertyAccessExpressionLeaf(n) THEN None
         ELSE IF ~findDeclaration(n).found THEN None
         ELSE IF findDeclaration(n).readonly THEN None
         ELSE IF n.enumLiteral THEN None
         ELSE LET called == isWithinCallExpressionExpression(n)
                  root == getPropertyAccessExpressionRoot(c)
              IN  IF root = NullNode THEN None
                  ELSE IF isThis(root) THEN Gate(called, root, w)
                  ELSE IF root.text \in KnownGlobals THEN None
                  ELSE IF StartsUpperCase(root.text) THEN Gate(called, root, w)
                  ELSE isUnsafeRoot(root, rootCallback(stack), w)
    ELSE isUnsafeRoot(n, rootCallback(stack), w)

\* visitNode validates identifiers and `this` while a callback is open
Validates(stack, n) == Len(stack) > 0 /\ (isIdentifier(n) \/ isThis(n))

\* ---- actions
CInit ==
    /\ ruleArguments \in RuleArguments
    /\ walker = WalkerFields(ruleArguments)
    /\ callbackStack = <<>>
    /\ position = 0
    /\ chain = NoChain
    /\ node = NullNode
    /\ failureNode = None
    /\ scopeFailures = <<>>

\* the usage tracker's pass does not involve the classifier
CIdle ==
    /\ ruleArguments = <<>>
    /\ walker = WalkerFields(<<>>)
    /\ callbackStack = <<>>
    /\ position = 0
    /\ chain = NoChain
    /\ node = NullNode
    /\ failureNode = None
    /\ scopeFailures = <<>>

\* no visit is running; the next node lies in the text, and inside every
\* open callback
CanVisit ==
    /\ node = NullNode
    /\ position < MaxPos
    /\ callbackStack # <<>> => position < callbackStack[Len(callbackStack)].end

\* visitNode(n): validate n when inside a callback, add the failure if any
Visit(n) ==
    /\ node' = n
    /\ failureNode' = IF Validates(callbackStack, n)
                      THEN isUnsafe(n, callbackStack, chain, walker)
                      ELSE None
    /\ scopeFailures' = IF failureNode' # None
                        THEN Append(scopeFailures, failureNode')
                        ELSE scopeFailures
    /\ UNCHANGED position

\* ScopeWalker: a function literal passed as an argument is entered
enterCallback ==
    /\ node = NullNode
    /\ position < MaxPos
    /\ ~chain.open
    /\ callbackStack # <<>> =>
          /\ position > callbackStack[Len(callbackStack)].pos
          /\ position < callbackStack[Len(callbackStack)].end
    /\ \E end \in (position + 1)..MaxPos :
          /\ callbackStack # <<>> => end <= callbackStack[Len(callbackStack)].end
          /\ callbackStack' = Append(callbackStack, [pos |-> position, end |-> end])
    /\ UNCHANGED <<ruleArguments, walker, position, chain, node, failureNode,
                   scopeFailures, uvars>>

\* ScopeWalker: the literal and all its descendants have been visited
leaveCallback ==
    /\ node = NullNode
    /\ callbackStack # <<>>
    /\ position = callbackStack[Len(callbackStack)].end
    /\ callbackStack' = SubSeq(callbackStack, 1, Len(callbackStack) - 1)
    /\ UNCHANGED <<ruleArguments, walker, position, chain, node, failureNode,
                   scopeFailures, uvars>>

\* visitNode on an identifier or `this` outside member-access chains
visitBareNode ==
    /\ CanVisit
    /\ ~chain.open
    /\ \E n \in BareNodes(position) : Visit(n)
    /\ UNCHANGED <<ruleArguments, walker, callbackStack, chain, uvars>>

\* visitNode on the identifier or `this` a member-access chain starts with
visitChainRoot ==
    /\ CanVisit
    /\ position + 1 < MaxPos
    /\ callbackStack # <<>> => position + 1 < callbackStack[Len(callbackStack)].end
    /\ ~chain.open
    /\ \E n \in RootNodes(position) :
          /\ Visit(n)
          /\ chain' = [open |-> TRUE, root |-> n]
    /\ UNCHANGED <<ruleArguments, walker, callbackStack, uvars>>

\* a chain that starts with another expression (a call, an element access):
\* visitNode on a node that is neither an identifier nor `this`
visitOtherRoot ==
    /\ CanVisit
    /\ ~chain.open
    /\ chain' = [open |-> TRUE, root |-> NullNode]
    /\ UNCHANGED <<ruleArguments, walker, callbackStack, position, node, failureNode,
                   scopeFailures, uvars>>

\* visitNode on a property name of the open chain
visitChainName ==
    /\ CanVisit
    /\ chain.open
    /\ \E n \in NameNodes(position) :
          /\ n.parentParentIsPropertyAccess =>
                /\ position + 1 < MaxPos
                /\ callbackStack # <<>> =>
                      position + 1 < callbackStack[Len(callbackStack)].end
          /\ Visit(n)
    /\ UNCHANGED <<ruleArguments, walker, callbackStack, chain, uvars>>

\* visitNode returns (an identifier or `this` has no children to descend to):
\* its locals are gone and the traversal moves on to the next node; the last
\* property name ends the chain
returnFromVisit ==
    /\ node # NullNode
    /\ node' = NullNode
    /\ failureNode' = None
    /\ position' = position + 1
    /\ chain' = IF node.site = "PropertyAccessExpression.name"
                     /\ ~node.parentParentIsPropertyAccess
                 THEN NoChain ELSE chain
    /\ UNCHANGED <<ruleArguments, walker, callbackStack, scopeFailures, uvars>>

CNext ==
    \/ enterCallback
    \/ leaveCallback
    \/ visitBareNode
    \/ visitChainRoot
    \/ visitOtherRoot
    \/ visitChainName
    \/ returnFromVisit

\* ---------------------------------------------------------- specifications
\* the usage tracker's pass over a file
Init == UInit /\ CIdle
Next == UNext
Spec == Init /\ [][Next]_vars

\* the capture classifier's pass over a file
ScopeInit == CInit /\ UIdle
ScopeNext == CNext
ScopeSpec == ScopeInit /\ [][ScopeNext]_vars

\* ------------------------------------------- usage tracker: the properties
\* a declaration of the file that the rule tracks by the claims' wording:
\* a non-exported class, enum, named function or variable declaration
Tracked(d) ==
    /\ d \in DOMAIN visited
    /\ visited[d].kind \in TrackedKinds
    /\ ~visited[d].exported
    /\ visited[d].named

FailuresAt(t) == IF t \in DOMAIN failures THEN failures[t] ELSE 0

\* the name of d occurs somewhere else in the file: as a reference (of any
\* kind, assignment targets included) or as the name of a merged declaration
Referenced(d) ==
    \/ \E r \in refs : r.symbol = SymbolOf(d)
    \/ \E d2 \in DOMAIN visited \ {d} : SymbolOf(d2) = SymbolOf(d)

\* a reference that resolves to d and is not an assignment target
ReadReference(d) == \E r \in refs : r.symbol = SymbolOf(d) /\ ~r.target

\* the pass over the file is over: it finalized, or an exception ended it
\* (the file is the nodes visited up to there)
PassOver == status \in {"done", "threw"}

\* C1: no violation is emitted before finalization, and once the pass over a
\* file is over every tracked declaration of the file whose name is never
\* referenced elsewhere has exactly one violation at its name token.
C1_UnusedReportedOnce ==
    /\ status = "walking" => DOMAIN failures = {}
    /\ PassOver =>
          \A d \in DOMAIN visited :
              Tracked(d) /\ ~Referenced(d) => FailuresAt(Name(d)) = 1

\* C2: after a completed pass, every tracked declaration with a reference
\* that resolves to it and is not an assignment target is marked used and has
\* no violation, wherever the reference stands relative to the declaration.
C2_ReferencedIsUsed ==
    status = "done" =>
        \A d \in DOMAIN visited :
            Tracked(d) /\ ReadReference(d) =>
                identifiers[Name(d)] /\ FailuresAt(Name(d)) = 0

\* C3: a declaration with the export modifier is never a key of the registry
\* and never has a violation, referenced or not.
C3_ExportedNeverTracked ==
    \A d \in DOMAIN visited :
        visited[d].exported =>
            Name(d) \notin DOMAIN identifiers /\ FailuresAt(Name(d)) = 0

\* a finalized file with an exported declaration that nothing references,
\* beside a tracked unused declaration that is reported
C3_Witness ==
    /\ status = "done"
    /\ \E d \in DOMAIN visited :
          visited[d].exported /\ visited[d].kind \in TrackedKinds /\ ~Referenced(d)
    /\ \E d \in DOMAIN visited : Tracked(d) /\ FailuresAt(Name(d)) = 1

\* C4: an identifier whose symbol is undefined, or whose symbol has no
\* declarations, does not end the pass with an exception.
C4_NoExceptionEscapes == status # "threw"

\* C10: the registry starts empty; a key is never removed, and an entry that
\* is used never becomes unused again.
C10_RegistryMonotone ==
    /\ identifiers = EmptyMap
    /\ [][\A k \in DOMAIN identifiers :
              k \in DOMAIN identifiers' /\ (identifiers[k] => identifiers'[k])]_vars

\* a registration that follows a marking: a renaming import's source-side name
\* and a referenced declaration are used while a later entry is still unused
C10_Witness ==
    /\ \E d \in Decls : PropertyName(d) \in DOMAIN identifiers
    /\ \E d \in DOMAIN visited : Tracked(d) /\ identifiers[Name(d)]
    /\ \E k \in DOMAIN identifiers : ~identifiers[k]

\* ---------------------------------------- capture classifier: the properties
\* visitNode is running on a node inside at least one callback
Validating == node # NullNode /\ callbackStack # <<>>

IsBare(n) == n # NullNode /\ ParentKind(n.site) # "PropertyAccessExpression"
\* the last property name of a chain
IsLeaf(n) ==
    /\ n # NullNode
    /\ n.site = "PropertyAccessExpression.name"
    /\ ~n.parentParentIsPropertyAccess

\* the declaration starts inside the span of the outermost open callback
InsideOutermost(declaration) ==
    /\ declaration.found
    /\ callbackStack[1].pos <= declaration.pos
    /\ declaration.pos < callbackStack[1].end

\* C5: inside a callback, a bare reference whose declaration resolves outside
\* the outermost callback, is no parameter (unless allowParameters is off), no
\* const and no import binding, and that stands as an assignment target, as an
\* argument of a call or of a constructor call, or in any other non-exempt
\* position, is reported at that node.  (A right segment of a qualified name
\* is left out, as a type position.)
C5_OuterCaptureReported ==
    ( /\ Validating
      /\ IsBare(node)
      /\ node.site \in {"BinaryExpression.assign.left", "CallExpression.argument",
                        "NewExpression.argument", "Other"}
      /\ node.declaration.found
      /\ ~InsideOutermost(node.declaration)
      /\ node.declaration.flavor = "Parameter" => ~walker.allowParameters
      /\ node.declaration.flavor \notin {"ConstVariable", "ImportSpecifier", "NamespaceImport"} )
    => failureNode = node.pos

\* the reference visitNode would flag: the node itself, or the root of its chain
Candidate == IF IsLeaf(node) THEN chain.root ELSE node

\* C6 as claimed: inside a callback, no reference whose declaration starts
\* inside the outermost open callback is reported, root of a chain or not.
C6_InsideOutermostAlwaysSafe ==
    Validating /\ (IsBare(node) \/ IsLeaf(node)) /\ InsideOutermost(Candidate.declaration)
        => failureNode = None

\* C6 as amended: a reported reference whose declaration starts inside the
\* outermost open callback is the root of a chain that starts with `this` or
\* with a capitalised identifier (decided by allowMethods / allowProperties
\* before any position is compared); every reference that reaches the
\* root-safety test is safe there, whatever the innermost callback is.
C6_RootTestInsideOutermostSafe ==
    Validating /\ failureNode # None /\ InsideOutermost(Candidate.declaration)
        => IsLeaf(node) /\ (isThis(chain.root) \/ StartsUpperCase(chain.root.text))

\* a mutable binding of the outer callback read bare in a nested callback that
\* does not contain it: safe
C6_Witness ==
    /\ Len(callbackStack) >= 2
    /\ IsBare(node)
    /\ node.site = "Other"
    /\ node.declaration.flavor = "LetVariable"
    /\ InsideOutermost(node.declaration)
    /\ node.declaration.pos < callbackStack[Len(callbackStack)].pos
    /\ failureNode = None

\* C7: a chain whose resolved leaf member is readonly, or whose leaf has an
\* enum-literal type, is safe for every configuration and every root.
C7_ReadonlyOrEnumLeafSafe ==
    ( /\ Validating
      /\ IsLeaf(node)
      /\ (node.declaration.found /\ node.declaration.readonly) \/ node.enumLiteral )
    => failureNode = None

\* `this.v` with v readonly, read with allowProperties off: safe
C7_Witness ==
    /\ Validating
    /\ IsLeaf(node)
    /\ isThis(chain.root)
    /\ node.declaration.found /\ node.declaration.readonly
    /\ ~node.enumLiteral
    /\ ~node.called
    /\ ~walker.allowProperties
    /\ failureNode = None

\* unset options take the defaults: allowMethods and allowParameters true,
\* allowProperties false
OptionsDefault ==
    /\ (ruleArguments = <<>> \/ ruleArguments[1].allowMethods = "undefined")
          => walker.allowMethods
    /\ (ruleArguments = <<>> \/ ruleArguments[1].allowParameters = "undefined")
          => walker.allowParameters
    /\ (ruleArguments = <<>> \/ ruleArguments[1].allowProperties = "undefined")
          => ~walker.allowProperties

\* the outcome of chain rule 3 on the chain being visited
ThisGate ==
    /\ failureNode = None <=>
          (node.called /\ walker.allowMethods) \/ (~node.called /\ walker.allowProperties)
    /\ failureNode # None => failureNode = chain.root.pos

C9_ChainClassifiedOnceAtLeaf ==
    /\ node # NullNode /\ ParentKind(node.site) = "PropertyAccessExpression"
          /\ ~IsLeaf(node) => failureNode = None
    /\ IsLeaf(node) /\ failureNode # None =>
          chain.root # NullNode /\ failureNode = chain.root.pos
    /\ callbackStack = <<>> => failureNode = None
    /\ failureNode # None =>
          scopeFailures # <<>> /\ scopeFailures[Len(scopeFailures)] = failureNode
    /\ \A i, j \in 1..Len(scopeFailures) :
          i # j => scopeFailures[i] # scopeFailures[j]

\* a chain root.mid.leaf inside a callback, reported once, at its root, when
\* its leaf is visited
C9_Witness ==
    /\ Validating
    /\ IsLeaf(node)
    /\ chain.root # NullNode
    /\ node.pos = chain.root.pos + 2
    /\ failureNode = chain.root.pos
    /\ Cardinality({i \in 1..Len(scopeFailures) : scopeFailures[i] = chain.root.pos}) = 1
====
